---- MODULE Spec2Model ----
(***************************************************************************)
(* PantryPal: the recipe workflow of app.py (one Streamlit script run per  *)
(* user interaction) over the browser-local history store, and the two     *)
(* history store backends (utils/storage.py, utils/localstorage.py) run    *)
(* side by side.                                                           *)
(*                                                                         *)
(* Text is a sequence of one-character strings, so that str.lower() is     *)
(* computed character by character.  A backing store (a file, a            *)
(* localStorage item) is a record [kind, val]: kind "absent" (no file, no  *)
(* item), "empty" (zero bytes), "malformed" (text json.loads rejects),     *)
(* "null" (the JSON text null: valid JSON, not an array) or "array" (the   *)
(* JSON text of the list val).                                             *)
(***************************************************************************)
EXTENDS Integers, Sequences, FiniteSets, TLC

VARIABLES
    \* ---- the app session (app.py) ----
    store,        \* localStorage item "pantrypal_history"
    temp,         \* st.session_state.temp: <<>> (no key) or <<draft>>
    current,      \* st.session_state.current: <<>> (no key) or <<entry>>
    history,      \* st.session_state.history
    ingredients,  \* sidebar widget: the parsed ingredient list
    view,         \* what the last script run rendered (the buttons on the page)
    aiKey,        \* GOOGLE_KEY is set (ai_gen is not None)
    imgKey,       \* UNSPLASH_KEY is set (img_fetch is not None)
    nextId,       \* the uuid4 / datetime.now() source: the next fresh value
    last,         \* history variable: the last script run: the button, whether its
                  \* branch refused (st.error / st.warning), whether an exception
                  \* reached the handler, the calls made (those of the button's
                  \* branch apart), the draft it finalized
    \* ---- the two backends side by side (storage.py, localstorage.py) ----
    fileStore,    \* content of the file of the file-backed Storage
    localStore,   \* content of the localStorage item of the browser-local Storage
    sNextId,      \* the uuid4 / datetime.now() source of the backend runs
    sLast,        \* history variable: the last backend call and both outcomes
    \* ---- the functions called on their own (normalize_ingredients,
    \*      _parse_numeric, the aggregates of render_analysis) ----
    fnIn,         \* the argument
    fnOut,        \* the function applied and its outcome
    \* ---- two writers over one backing store ----
    race          \* the store, each writer's position and loaded list, and the
                  \* history of the run: ids the store started with, ids saved
                  \* and deleted, whether two operations overlapped

vars == <<store, temp, current, history, ingredients, view,
          aiKey, imgKey, nextId, last, fileStore, localStore, sNextId, sLast,
          fnIn, fnOut, race>>

appVars == <<store, temp, current, history, ingredients, view,
             aiKey, imgKey, nextId, last>>

storeVars == <<fileStore, localStore, sNextId, sLast>>

fnVars == <<fnIn, fnOut>>

(***************************************************************************)
(* Bounds of the model.                                                    *)
(***************************************************************************)
\* save_recipe calls per session (bounds the ids and the history length)
MaxSaves == 1
\* save_recipe calls per backend run
MaxStoreSaves == 2
\* length of the ingredient lists given to normalize_ingredients
MaxIngs == 2
\* length of the nutrition texts given to the parsers (beside the tests' texts)
MaxText == 3
\* number of entries of the histories given to render_analysis
MaxEntries == 2
\* number of operations each of the two writers runs
MaxWriterOps == 1

(***************************************************************************)
(* Text.                                                                   *)
(***************************************************************************)
UpperAlpha == <<"A","B","C","D","E","F","G","H","I","J","K","L","M",
                "N","O","P","Q","R","S","T","U","V","W","X","Y","Z">>

LowerAlpha == <<"a","b","c","d","e","f","g","h","i","j","k","l","m",
                "n","o","p","q","r","s","t","u","v","w","x","y","z">>

\* one character of str.lower()
LowerChar(c) ==
    IF \E i \in DOMAIN UpperAlpha : UpperAlpha[i] = c
    THEN LowerAlpha[CHOOSE i \in DOMAIN UpperAlpha : UpperAlpha[i] = c]
    ELSE c

DigitChars == <<"0","1","2","3","4","5","6","7","8","9">>

Range(s) == {s[i] : i \in DOMAIN s}

\* the characters of the model's texts
Chars == Range(UpperAlpha) \cup Range(LowerAlpha) \cup Range(DigitChars)
            \cup {" ", ".", ",", ":", "{", "}", "\"", "'", "-"}

\* str.lower() of each character, tabulated once
LowerTable == [c \in Chars |-> LowerChar(c)]

\* str.lower()
Lower(s) == [i \in DOMAIN s |-> LowerTable[s[i]]]

\* str(n) for a small non-negative integer
IntText(n) ==
    IF n < 10 THEN <<DigitChars[n + 1]>>
    ELSE <<DigitChars[(n \div 10) + 1], DigitChars[(n % 10) + 1]>>

(***************************************************************************)
(* Values the AI service can put in an ingredient list, and                *)
(* normalize_ingredients.  An element is a string [k |-> "str", s], a      *)
(* dict [k |-> "dict", item, name, text, amount] or another value          *)
(* [k |-> "num", n].  A dict field is [t, s, n]: t = "absent" (no such     *)
(* key), "str" (the text s), "num" (the number n) or "none" (None).        *)
(***************************************************************************)
Absent == [t |-> "absent", s |-> <<>>, n |-> 0]
NoneVal == [t |-> "none", s |-> <<>>, n |-> 0]
StrVal(s) == [t |-> "str", s |-> s, n |-> 0]
NumVal(n) == [t |-> "num", s |-> <<>>, n |-> n]

StrElem(s) == [k |-> "str", s |-> s]
NumElem(n) == [k |-> "num", n |-> n]
DictElem(item, name, text, amount) ==
    [k |-> "dict", item |-> item, name |-> name, text |-> text, amount |-> amount]

\* dict.get(key): None when the key is absent
Get(v) == IF v.t = "absent" THEN NoneVal ELSE v

\* Python truthiness of a field value
Truthy(v) ==
    \/ v.t = "str" /\ v.s # <<>>
    \/ v.t = "num" /\ v.n # 0

PyOrPresent(a, b) == IF a.t # "none" THEN a ELSE b

\* a or b
PyOr(a, b) == IF Truthy(a) THEN a ELSE b

\* json.dumps of a field value
ValText(v) ==
    CASE v.t = "str" -> <<"\"">> \o v.s \o <<"\"">>
      [] v.t = "num" -> IntText(v.n)
      [] OTHER -> <<"n","u","l","l">>

\* json.dumps of one key of a dict (nothing when the key is absent)
KeyText(key, v) ==
    IF v.t = "absent" THEN <<>> ELSE <<"\"">> \o key \o <<"\"", ":">> \o ValText(v) \o <<",">>

\* json.dumps(i) of a dict element
DictText(d) ==
    <<"{">> \o KeyText(<<"i","t","e","m">>, d.item)
            \o KeyText(<<"a","m","o","u","n","t">>, d.amount)
            \o KeyText(<<"n","a","m","e">>, d.name)
            \o KeyText(<<"t","e","x","t">>, d.text) \o <<"}">>

AppendedUnchecked(i) ==
    CASE i.k = "str" -> StrVal(i.s)
      [] i.k = "dict" -> PyOr(PyOr(Get(i.item), Get(i.name)), Get(i.text))
      [] OTHER -> StrVal(IntText(i.n))

\* the value out.append receives for one element, with its type
Appended(i) ==
    CASE i.k = "str" -> StrVal(i.s)
      [] i.k = "dict" ->
            LET txt == PyOr(PyOr(Get(i.item), Get(i.name)), Get(i.text))
            IN  IF txt.t = "str" THEN txt ELSE StrVal(DictText(i))
      [] OTHER -> StrVal(IntText(i.n))

\* one element of normalize_ingredients, as text
NormalizeOne(i) == Appended(i).s

\* normalize_ingredients
normalize_ingredients(raw_ings) == [j \in DOMAIN raw_ings |-> NormalizeOne(raw_ings[j])]

(***************************************************************************)
(* The backing store and json.                                             *)
(***************************************************************************)
AbsentContent == [kind |-> "absent", val |-> <<>>]
EmptyContent == [kind |-> "empty", val |-> <<>>]
MalformedContent == [kind |-> "malformed", val |-> <<>>]
NullContent == [kind |-> "null", val |-> <<>>]

\* json.dumps(history, indent=2) of a list
Dumps(h) == [kind |-> "array", val |-> h]

\* the outcome of a call: raised, or returned ret (isList = FALSE: returned None)
Raised == [raised |-> TRUE, isList |-> FALSE, ret |-> <<>>]
Returned(h) == [raised |-> FALSE, isList |-> TRUE, ret |-> h]
ReturnedNone == [raised |-> FALSE, isList |-> FALSE, ret |-> <<>>]

\* json.loads(text): JSONDecodeError on empty or malformed text
Loads(c) ==
    CASE c.kind = "array" -> Returned(c.val)
      [] c.kind = "null" -> ReturnedNone
      [] OTHER -> Raised

\* the entry dict save_recipe builds; uuid4().hex and datetime.now() both read
\* the fresh-value source, so ids never repeat and timestamps follow save order
Entry(id, recipe, image_url, user_ings, substitutions) ==
    [id |-> id,
     timestamp |-> id,
     recipe |-> recipe,
     recipe_ings |-> IF recipe.hasIngs THEN recipe.ingredients ELSE <<>>,
     image_url |-> image_url,
     user_ings |-> user_ings,
     substitutions |-> substitutions]

\* [e for e in history if e["id"] != entry_id]
WithoutId(h, entry_id) == SelectSeq(h, LAMBDA e : e.id # entry_id)

\* the result of a mutating call: raised or not, and the backing store after it
Failed(c) == [raised |-> TRUE, store |-> c]
Done(c) == [raised |-> FALSE, store |-> c]

(***************************************************************************)
(* utils/storage.py: the file-backed Storage.                              *)
(***************************************************************************)
\* __init__: create the file holding [] when it does not exist
FileConstruct(c) == IF c.kind = "absent" THEN Dumps(<<>>) ELSE c

\* load_history: json.loads(self.path.read_text())
FileLoad(c) == IF c.kind = "absent" THEN Raised ELSE Loads(c)

\* save_recipe: load, append the new entry, write the list back
FileSave(c, id, recipe, image_url, user_ings, substitutions) ==
    LET h == FileLoad(c)
    IN  IF h.raised \/ ~h.isList THEN Failed(c)
        ELSE Done(Dumps(Append(h.ret, Entry(id, recipe, image_url, user_ings, substitutions))))

FileDeleteFirst(c, entry_id) ==
    LET h == FileLoad(c)
    IN  IF h.raised \/ ~h.isList THEN Failed(c)
        ELSE Done(Dumps(IF h.ret = <<>> THEN <<>> ELSE Tail(h.ret)))

\* delete_recipe: load, drop the entries with that id, write the list back
FileDelete(c, entry_id) ==
    LET h == FileLoad(c)
    IN  IF h.raised \/ ~h.isList THEN Failed(c)
        ELSE Done(Dumps(WithoutId(h.ret, entry_id)))

FileClearNothing(c) == Done(c)

\* clear_history: write []
FileClear(c) == Done(Dumps(<<>>))

(***************************************************************************)
(* utils/localstorage.py: the browser-local Storage.                       *)
(***************************************************************************)
\* _local.getItem("pantrypal_history") or "[]"
RawOrEmptyList(c) == IF c.kind \in {"absent", "empty"} THEN Dumps(<<>>) ELSE c

\* load_history: json.loads(raw), [] on JSONDecodeError
LocalLoad(c) ==
    LET r == Loads(RawOrEmptyList(c))
    IN  IF r.raised THEN Returned(<<>>) ELSE r

\* save_recipe
LocalSave(c, id, recipe, image_url, user_ings, substitutions) ==
    LET h == LocalLoad(c)
    IN  IF ~h.isList THEN Failed(c)
        ELSE Done(Dumps(Append(h.ret, Entry(id, recipe, image_url, user_ings, substitutions))))

\* delete_recipe
LocalDelete(c, entry_id) ==
    LET h == LocalLoad(c)
    IN  IF ~h.isList THEN Failed(c)
        ELSE Done(Dumps(WithoutId(h.ret, entry_id)))

\* clear_history: _local.deleteAll()
LocalClear(c) == Done(AbsentContent)

(***************************************************************************)
(* The two backends side by side: both start from the same backing         *)
(* content and receive the same calls (test_utils_and_storage.py drives    *)
(* the file-backed one this way).                                          *)
(***************************************************************************)
TestDish == [name |-> <<"D","i","s","h">>, hasIngs |-> TRUE,
             ingredients |-> << <<"a">>, <<"b">> >>]
DishX == [name |-> <<"X">>, hasIngs |-> FALSE, ingredients |-> <<>>]

NoSubs == <<>>
SubsBC == <<[key |-> <<"b">>, subs |-> << <<"c">> >>]>>

NoArgs == [recipe |-> DishX, image_url |-> <<>>, user_ings |-> <<>>, substitutions |-> NoSubs]

\* the arguments the tests pass to save_recipe, and a mix of them
SaveArgs ==
    { [recipe |-> TestDish, image_url |-> <<"h","t","t","p">>,
       user_ings |-> << <<"a">> >>, substitutions |-> SubsBC],
      NoArgs,
      [recipe |-> TestDish, image_url |-> <<>>, user_ings |-> <<>>, substitutions |-> SubsBC] }

\* an entry written by an earlier run
OldEntry == Entry(0, TestDish, <<"h","t","t","p">>, << <<"a">> >>, NoSubs)

InitContents ==
    {AbsentContent, EmptyContent, MalformedContent, NullContent,
     Dumps(<<>>), Dumps(<<OldEntry>>)}

NoOutcome == [raised |-> FALSE, isList |-> FALSE, ret |-> <<>>]
CallOutcome(r) == [raised |-> r.raised, isList |-> FALSE, ret |-> <<>>]

StoreIdle ==
    /\ fileStore = AbsentContent
    /\ localStore = AbsentContent
    /\ sNextId = 0
    /\ sLast = [op |-> "none", id |-> 0, args |-> NoArgs, start |-> AbsentContent,
                preFile |-> AbsentContent, preLocal |-> AbsentContent,
                f |-> NoOutcome, l |-> NoOutcome]

\* both backends constructed over the same content
Constructed ==
    /\ \E c \in InitContents :
        /\ fileStore = FileConstruct(c)
        /\ localStore = c
        /\ sLast = [op |-> "init", id |-> 0, args |-> NoArgs, start |-> c,
                    preFile |-> c, preLocal |-> c,
                    f |-> NoOutcome, l |-> NoOutcome]
    /\ sNextId = 1

SLoad ==
    /\ sLast' = [sLast EXCEPT !.op = "load", !.id = 0, !.args = NoArgs,
                    !.preFile = fileStore, !.preLocal = localStore,
                    !.f = FileLoad(fileStore), !.l = LocalLoad(localStore)]
    /\ UNCHANGED <<fileStore, localStore, sNextId>>

SSave ==
    /\ sNextId <= MaxStoreSaves
    /\ \E a \in SaveArgs :
        LET f == FileSave(fileStore, sNextId, a.recipe, a.image_url, a.user_ings, a.substitutions)
            l == LocalSave(localStore, sNextId, a.recipe, a.image_url, a.user_ings, a.substitutions)
        IN  /\ fileStore' = f.store
            /\ localStore' = l.store
            /\ sLast' = [sLast EXCEPT !.op = "save", !.id = sNextId, !.args = a,
                            !.preFile = fileStore, !.preLocal = localStore,
                            !.f = CallOutcome(f), !.l = CallOutcome(l)]
    /\ sNextId' = sNextId + 1

SDelete ==
    /\ \E id \in 0..MaxStoreSaves :
        LET f == FileDelete(fileStore, id)
            l == LocalDelete(localStore, id)
        IN  /\ fileStore' = f.store
            /\ localStore' = l.store
            /\ sLast' = [sLast EXCEPT !.op = "delete", !.id = id, !.args = NoArgs,
                            !.preFile = fileStore, !.preLocal = localStore,
                            !.f = CallOutcome(f), !.l = CallOutcome(l)]
    /\ UNCHANGED sNextId

SClear ==
    /\ LET f == FileClear(fileStore)
           l == LocalClear(localStore)
       IN  /\ fileStore' = f.store
           /\ localStore' = l.store
           /\ sLast' = [sLast EXCEPT !.op = "clear", !.id = 0, !.args = NoArgs,
                           !.preFile = fileStore, !.preLocal = localStore,
                           !.f = CallOutcome(f), !.l = CallOutcome(l)]
    /\ UNCHANGED sNextId

StoreNext ==
    \/ SLoad /\ UNCHANGED <<appVars, fnVars, race>>
    \/ SSave /\ UNCHANGED <<appVars, fnVars, race>>
    \/ SDelete /\ UNCHANGED <<appVars, fnVars, race>>
    \/ SClear /\ UNCHANGED <<appVars, fnVars, race>>

(***************************************************************************)
(* app.py: its own copy of the browser-local Storage.                      *)
(***************************************************************************)
\* Storage.load_history
load_history(c) ==
    LET r == Loads(RawOrEmptyList(c))
    IN  IF r.raised THEN Returned(<<>>) ELSE r

save_recipe_overwrite(c, id, recipe, image_url, user_ings, substitutions) ==
    Done(Dumps(<<Entry(id, recipe, image_url, user_ings, substitutions)>>))

\* Storage.save_recipe
save_recipe(c, id, recipe, image_url, user_ings, substitutions) ==
    LET h == load_history(c)
    IN  IF ~h.isList THEN Failed(c)
        ELSE Done(Dumps(Append(h.ret, Entry(id, recipe, image_url, user_ings, substitutions))))

\* Storage.delete_recipe
delete_recipe(c, entry_id) ==
    LET h == load_history(c)
    IN  IF ~h.isList THEN Failed(c)
        ELSE Done(Dumps(WithoutId(h.ret, entry_id)))

\* Storage.clear_history
clear_history(c) == Done(AbsentContent)

(***************************************************************************)
(* The external services, as far as the workflow sees them.                *)
(***************************************************************************)
Chicken == <<"c","h","i","c","k","e","n">>
Rice == <<"r","i","c","e">>
Lime == <<"l","i","m","e">>

\* the end-to-end recipe: two {item, amount} ingredients
BowlRaw ==
    [name |-> <<"B","o","w","l">>, hasIngs |-> TRUE,
     ingredients |-> << DictElem(StrVal(Chicken), Absent, Absent, StrVal(<<"2","0","0","g">>)),
                        DictElem(StrVal(Lime), Absent, Absent, StrVal(<<"1">>)) >>]

\* a recipe whose ingredient list holds a plain string
PlainRaw ==
    [name |-> <<"P","l","a","i","n">>, hasIngs |-> TRUE,
     ingredients |-> << StrElem(<<"R","i","c","e">>) >>]

\* a recipe object that has no "ingredients" key
NoIngsRaw == [name |-> <<"N","o","n","e">>, hasIngs |-> FALSE, ingredients |-> <<>>]

\* what ai_gen.generate does: raise, or return a recipe object
AiOutcomes ==
    { [ok |-> FALSE, recipe |-> NoIngsRaw],
      [ok |-> TRUE, recipe |-> BowlRaw],
      [ok |-> TRUE, recipe |-> PlainRaw],
      [ok |-> TRUE, recipe |-> NoIngsRaw] }

\* n=5 of fetch_images(recipe["name"], n=5)
NumImages == 5

ImageUrl(i) == <<"u", DigitChars[i + 1]>>

\* what the image search does: raise, or have `avail` matching photos
ImgOutcomes == { [ok |-> FALSE, avail |-> 0] } \cup { [ok |-> TRUE, avail |-> a] : a \in {0, 6} }

\* UnsplashImageFetcher.fetch_images: the urls of the results of one page of
\* per_page = n photos (the search returns at most per_page results)
fetch_images(avail, n) ==
    [i \in 1..(IF avail < n THEN avail ELSE n) |-> ImageUrl(i)]

\* what ai_gen.get_substitutions does: raise, or return two substitutes per
\* missing item
SubsOutcomes == {"raise", "full"}

\* the outcome of a call is drawn only when the call is made
Drawn(called, outcomes) == IF called THEN outcomes ELSE {CHOOSE o \in outcomes : TRUE}

TwoSubs == << <<"a","l","t","1">>, <<"a","l","t","2">> >>

\* the mapping get_substitutions returns, as its (key, value) pairs in order
get_substitutions(missing) ==
    [i \in DOMAIN missing |-> [key |-> missing[i], subs |-> TwoSubs]]

\* what the sidebar text input can hold, parsed (get_user_input)
IngredientInputs == { <<>>, <<Chicken, Rice>> }

\* what the restrictions multiselect can hold; a run reads it only to pass it
\* to ai_gen.generate, so it is an input of the run
RestrictionInputs == { <<>>, << <<"V","e","g","a","n">> >> }

(***************************************************************************)
(* app.py: one script run.  A run is computed on a record of the session   *)
(* (temp, current, history), the store, the calls made so far and whether  *)
(* an exception has reached the top-level handler.                         *)
(***************************************************************************)
GenCall(ings, restrs) == [svc |-> "generate", ings |-> ings, restrs |-> restrs]
ImgCall(query, n) == [svc |-> "images", query |-> query, n |-> n]
SubsCall(missing) == [svc |-> "subs", missing |-> missing]
SaveCall(recipe, image_url, user_ings, substitutions) ==
    [svc |-> "save", recipe |-> recipe, image_url |-> image_url,
     user_ings |-> user_ings, substitutions |-> substitutions]

RunStart ==
    [temp |-> temp, current |-> current, history |-> history, store |-> store,
     nextId |-> nextId, calls |-> <<>>, err |-> FALSE, outcome |-> "ok",
     index |-> -1, finalized |-> FALSE, staged |-> FALSE, draft |-> <<>>,
     branchCalls |-> <<>>, branchKept |-> TRUE, rejected |-> "none", view |-> "none"]

\* except Exception: report, the rest of the script is skipped
Caught(s) == [s EXCEPT !.err = TRUE, !.outcome = "error", !.view = "error"]

MissingAll(recipe_ings, user_ings) == recipe_ings

\* [ing for ing in recipe_ings if ing.lower() not in {u.lower() for u in user_ings}]
Missing(recipe_ings, user_ings) ==
    SelectSeq(recipe_ings, LAMBDA ing : Lower(ing) \notin {Lower(u) : u \in Range(user_ings)})

ClearStepKeepsCurrent(s) ==
    [s EXCEPT !.store = clear_history(s.store).store, !.history = <<>>, !.temp = <<>>]

\* do_clear
ClearStep(s) ==
    [s EXCEPT !.store = clear_history(s.store).store, !.history = <<>>,
              !.current = <<>>, !.temp = <<>>]

StageDraftFirst(s, ings, restrs, ai, img) ==
    LET s1 == [s EXCEPT !.calls = Append(@, GenCall(ings, restrs))]
    IN  IF ~ai.ok \/ ~ai.recipe.hasIngs THEN Caught(s1)
        ELSE LET recipe_ings == normalize_ingredients(ai.recipe.ingredients)
                 recipe == [ai.recipe EXCEPT !.ingredients = recipe_ings]
                 draft == [recipe |-> recipe, recipe_ings |-> recipe_ings,
                           image_options |-> <<>>, user_ings |-> ings]
                 s2 == IF imgKey
                       THEN [s1 EXCEPT !.calls = Append(@, ImgCall(recipe.name, NumImages)),
                                       !.temp = <<draft>>]
                       ELSE s1
             IN  IF imgKey /\ ~img.ok THEN Caught(s2)
                 ELSE [s2 EXCEPT
                         !.temp = << [draft EXCEPT !.image_options =
                                          IF imgKey THEN fetch_images(img.avail, NumImages)
                                          ELSE <<>>] >>,
                         !.current = <<>>,
                         !.staged = TRUE]

\* the body shared by do_random (ings = []) and do_generate (ings = ingredients)
Stage(s, ings, restrs, ai, img) ==
    LET s1 == [s EXCEPT !.calls = Append(@, GenCall(ings, restrs))]
    IN  IF ~ai.ok \/ ~ai.recipe.hasIngs THEN Caught(s1)
        ELSE LET recipe_ings == normalize_ingredients(ai.recipe.ingredients)
                 recipe == [ai.recipe EXCEPT !.ingredients = recipe_ings]
                 s2 == IF imgKey
                       THEN [s1 EXCEPT !.calls = Append(@, ImgCall(recipe.name, NumImages))]
                       ELSE s1
             IN  IF imgKey /\ ~img.ok THEN Caught(s2)
                 ELSE [s2 EXCEPT
                         !.temp = << [recipe |-> recipe,
                                      recipe_ings |-> recipe_ings,
                                      image_options |->
                                          IF imgKey THEN fetch_images(img.avail, NumImages)
                                          ELSE <<>>,
                                      user_ings |-> ings] >>,
                         !.current = <<>>,
                         !.staged = TRUE]

RandomStepNoRestrictions(s, restrs, ai, img) ==
    IF ~aiKey THEN [s EXCEPT !.rejected = "no_ai"]
    ELSE Stage(s, <<>>, <<>>, ai, img)

\* do_random
RandomStep(s, restrs, ai, img) ==
    IF ~aiKey THEN [s EXCEPT !.rejected = "no_ai"]
    ELSE Stage(s, <<>>, restrs, ai, img)

GenerateStepNoCheck(s, ings, restrs, ai, img) ==
    IF ~aiKey THEN [s EXCEPT !.rejected = "no_ai"]
    ELSE Stage(s, ings, restrs, ai, img)

\* do_generate
GenerateStep(s, ings, restrs, ai, img) ==
    IF ings = <<>> THEN [s EXCEPT !.rejected = "no_ingredients"]
    ELSE IF ~aiKey THEN [s EXCEPT !.rejected = "no_ai"]
    ELSE Stage(s, ings, restrs, ai, img)

FinalizeKeepsDraft(s, image_url, index, subsOut) ==
    LET d == s.temp[1]
        missing == Missing(d.recipe_ings, d.user_ings)
        ask == aiKey /\ missing # <<>>
        s0 == [s EXCEPT !.draft = s.temp]
        s1 == IF ask THEN [s0 EXCEPT !.calls = Append(@, SubsCall(missing))] ELSE s0
    IN  IF ask /\ subsOut = "raise" THEN Caught(s1)
        ELSE LET subs == IF ask THEN get_substitutions(missing) ELSE <<>>
                 w == save_recipe(s1.store, s1.nextId, d.recipe, image_url, d.user_ings, subs)
                 h == load_history(w.store).ret
             IN  IF w.raised THEN Caught(s1)
                 ELSE IF h = <<>> THEN
                     \* history[-1] of an empty list: IndexError after the save
                     Caught([s1 EXCEPT
                         !.calls = Append(@, SaveCall(d.recipe, image_url, d.user_ings, subs)),
                         !.store = w.store, !.nextId = @ + 1, !.history = h])
                 ELSE [s1 EXCEPT
                         !.calls = Append(@, SaveCall(d.recipe, image_url, d.user_ings, subs)),
                         !.store = w.store,
                         !.nextId = @ + 1,
                         !.history = h,
                         !.current = <<h[Len(h)]>>,
                         !.index = index,
                         !.finalized = TRUE,
                         !.view = "blank"]

\* the finalization shared by "finalize immediately if no images" and the
\* Confirm Image button
Finalize(s, image_url, index, subsOut) ==
    LET d == s.temp[1]
        missing == Missing(d.recipe_ings, d.user_ings)
        ask == aiKey /\ missing # <<>>
        s0 == [s EXCEPT !.draft = s.temp]
        s1 == IF ask THEN [s0 EXCEPT !.calls = Append(@, SubsCall(missing))] ELSE s0
    IN  IF ask /\ subsOut = "raise" THEN Caught(s1)
        ELSE LET subs == IF ask THEN get_substitutions(missing) ELSE <<>>
                 w == save_recipe(s1.store, s1.nextId, d.recipe, image_url, d.user_ings, subs)
                 h == load_history(w.store).ret
             IN  IF w.raised THEN Caught(s1)
                 ELSE IF h = <<>> THEN
                     \* history[-1] of an empty list: IndexError after the save
                     Caught([s1 EXCEPT
                         !.calls = Append(@, SaveCall(d.recipe, image_url, d.user_ings, subs)),
                         !.store = w.store, !.nextId = @ + 1, !.history = h])
                 ELSE [s1 EXCEPT
                         !.calls = Append(@, SaveCall(d.recipe, image_url, d.user_ings, subs)),
                         !.store = w.store,
                         !.nextId = @ + 1,
                         !.history = h,
                         !.current = <<h[Len(h)]>>,
                         !.temp = <<>>,
                         !.index = index,
                         !.finalized = TRUE,
                         !.view = "blank"]

ChosenUrlFirst(opts, choice) == opts[1]

\* opts[choice]
ChosenUrl(opts, choice) == opts[choice + 1]

\* the if / elif / else at the end of the script; confirm: the Confirm Image
\* button was clicked, choice: the radio's value
Display(s, confirm, choice, subsOut) ==
    IF s.err THEN s
    ELSE IF s.current # <<>> THEN [s EXCEPT !.view = "current"]
    ELSE IF s.temp # <<>> THEN
        LET opts == s.temp[1].image_options
        IN  IF opts = <<>> THEN Finalize(s, <<>>, -1, subsOut)
            ELSE IF confirm THEN Finalize(s, ChosenUrl(opts, choice), choice, subsOut)
            ELSE [s EXCEPT !.view = "picker"]
    ELSE IF s.history = <<>> THEN [s EXCEPT !.view = "welcome"]
    ELSE [s EXCEPT !.view = "history"]

\* the session after the run, and the record of the run
Commit(act, s) ==
    /\ s.nextId <= MaxSaves + 1
    /\ temp' = s.temp
    /\ current' = s.current
    /\ history' = s.history
    /\ store' = s.store
    /\ nextId' = s.nextId
    /\ view' = s.view
    /\ last' = [act |-> act, outcome |-> s.outcome, calls |-> s.calls,
                index |-> s.index, finalized |-> s.finalized,
                staged |-> s.staged, draft |-> s.draft,
                branchCalls |-> s.branchCalls, branchKept |-> s.branchKept,
                rejected |-> s.rejected]

\* the run when it reaches the display branch: the calls the button's branch
\* made, and whether it left the session and the store as they were
AtDisplay(s) ==
    [s EXCEPT !.branchCalls = s.calls,
              !.branchKept = /\ s.temp = temp /\ s.current = current
                             /\ s.history = history /\ s.store = store]

\* Display reaches get_substitutions
Asks(s, confirm) ==
    /\ ~s.err /\ s.current = <<>> /\ s.temp # <<>>
    /\ s.temp[1].image_options = <<>> \/ confirm
    /\ aiKey
    /\ Missing(s.temp[1].recipe_ings, s.temp[1].user_ings) # <<>>

\* the script from the display branch on, for each outcome of the
\* substitution call it makes (if any)
Finish(act, s, confirm, choice) ==
    \E subsOut \in Drawn(Asks(s, confirm), SubsOutcomes) :
        Commit(act, Display(AtDisplay(s), confirm, choice, subsOut))

(***************************************************************************)
(* The functions called on their own: the argument is drawn at the start,  *)
(* one action applies each function to it.                                 *)
(***************************************************************************)
Tomato == <<"t","o","m","a","t","o">>
Onion == <<"o","n","i","o","n">>
Garlic == <<"g","a","r","l","i","c">>
Pepper == <<"p","e","p","p","e","r">>
TwoCloves == <<"2"," ","c","l","o","v","e","s">>

\* the elements of test_normalize_ingredients_strings_and_dicts, and records
\* whose item / name / text is empty, None or a number
NormElems ==
    { StrElem(Tomato),
      StrElem(<<>>),
      DictElem(StrVal(Onion), Absent, Absent, StrVal(<<"1">>)),
      DictElem(Absent, StrVal(Garlic), StrVal(TwoCloves), Absent),
      DictElem(Absent, Absent, StrVal(Pepper), Absent),
      NumElem(42),
      DictElem(StrVal(<<>>), StrVal(Garlic), Absent, Absent),
      DictElem(StrVal(<<>>), Absent, Absent, Absent),
      DictElem(Absent, Absent, StrVal(<<>>), Absent),
      DictElem(NoneVal, Absent, StrVal(Pepper), Absent),
      DictElem(NumVal(5), StrVal(Garlic), Absent, Absent),
      DictElem(NumVal(0), StrVal(Garlic), Absent, Absent),
      DictElem(Absent, Absent, Absent, StrVal(<<"1">>)) }

\* raw_ings: a list of at most MaxIngs elements, or None
NotAList == [isList |-> FALSE, elems |-> <<>>]
RawInputs ==
    {NotAList} \cup
    { [isList |-> TRUE, elems |-> e] :
        e \in UNION { [1..n -> NormElems] : n \in 0..MaxIngs } }

\* a float, as the decimal num / 10^scale with no trailing zero
Zero == [num |-> 0, scale |-> 0]

\* the outcome of _parse_numeric: m is a match (found), the float returned
NotParsed == [done |-> FALSE, raised |-> FALSE, found |-> FALSE, number |-> Zero]
\* the outcome of the nutrition loop body for one value: a row appended (kept)
NoRow == [done |-> FALSE, raised |-> FALSE, kept |-> FALSE, number |-> Zero]

\* the outcome of one aggregate of render_analysis: the rows of its chart
\* (none: its "no data" message), or raised
NoRows == [done |-> FALSE, raised |-> FALSE, rows |-> <<>>]
\* the outcome of the recipes-over-time aggregate: the count of each date
NoCounts == [done |-> FALSE, raised |-> FALSE, counts |-> {}]

NoInput == [kind |-> "none", raw |-> NotAList, text |-> NoneVal, hist |-> <<>>]
NoResult == [op |-> "none", raised |-> FALSE, vals |-> <<>>,
             parsed |-> NotParsed, row |-> NoRow,
             nutri |-> NoRows, dates |-> NoCounts, top |-> NoRows]

FnIdle ==
    /\ fnIn = NoInput
    /\ fnOut = NoResult

\* normalize_ingredients, each element with its type (None is not iterable)
normalize_values(raw) ==
    IF ~raw.isList THEN [NoResult EXCEPT !.raised = TRUE]
    ELSE [NoResult EXCEPT !.vals = [j \in DOMAIN raw.elems |-> Appended(raw.elems[j])]]

IsDigit(c) == c \in Range(DigitChars)

DigitVal(c) == (CHOOSE i \in DOMAIN DigitChars : DigitChars[i] = c) - 1

\* the number a run of digits writes
RECURSIVE NatOf(_)
NatOf(ds) ==
    IF ds = <<>> THEN 0
    ELSE NatOf(SubSeq(ds, 1, Len(ds) - 1)) * 10 + DigitVal(ds[Len(ds)])

\* num / 10^scale without trailing zeros
RECURSIVE Reduced(_, _)
Reduced(num, scale) ==
    IF scale > 0 /\ num % 10 = 0 THEN Reduced(num \div 10, scale - 1)
    ELSE [num |-> num, scale |-> scale]

\* the last position of the longest run of characters of cs that starts at p
\* (p - 1 when s[p] is not one)
RunEnd(s, p, cs) ==
    CHOOSE e \in (p - 1)..Len(s) :
        /\ \A i \in p..e : s[i] \in cs
        /\ e = Len(s) \/ s[e + 1] \notin cs

\* float(txt) for a text of digits and dots: ValueError unless it has a digit
\* and at most one dot
Float(txt) ==
    LET dots == {i \in DOMAIN txt : txt[i] = "."}
        digits == SelectSeq(txt, IsDigit)
        dot == CHOOSE i \in dots : TRUE
    IN  IF Cardinality(dots) > 1 \/ digits = <<>>
        THEN [ok |-> FALSE, number |-> Zero]
        ELSE [ok |-> TRUE,
              number |-> Reduced(NatOf(digits), IF dots = {} THEN 0 ELSE Len(txt) - dot)]

\* m.group() of re.search(r"[\d]+(?:\.\d+)?", s), s holding a digit
FirstNumber(s) ==
    LET p == CHOOSE i \in DOMAIN s : IsDigit(s[i]) /\ \A j \in 1..(i - 1) : ~IsDigit(s[j])
        e == RunEnd(s, p, Range(DigitChars))
    IN  IF e + 2 <= Len(s) /\ s[e + 1] = "." /\ IsDigit(s[e + 2])
        THEN SubSeq(s, p, RunEnd(s, e + 2, Range(DigitChars)))
        ELSE SubSeq(s, p, e)

\* display._parse_numeric(v): re.search raises TypeError unless v is a str
ParseNumeric(v) ==
    IF v.t # "str" THEN [NotParsed EXCEPT !.done = TRUE, !.raised = TRUE]
    ELSE IF \A i \in DOMAIN v.s : ~IsDigit(v.s[i]) THEN [NotParsed EXCEPT !.done = TRUE]
    ELSE [NotParsed EXCEPT !.done = TRUE, !.found = TRUE,
                           !.number = Float(FirstNumber(v.s)).number]

\* render_analysis, the body of `for key, val in nutri.items()`:
\* m = re.match(r"^\s*([\d\.]+)", val or ""); if m: append float(m.group(1))
NutritionRow(val) ==
    LET arg == IF Truthy(val) THEN val ELSE StrVal(<<>>)
        p == RunEnd(arg.s, 1, {" "}) + 1
        e == RunEnd(arg.s, p, Range(DigitChars) \cup {"."})
        f == Float(SubSeq(arg.s, p, e))
    IN  IF arg.t # "str" THEN [NoRow EXCEPT !.done = TRUE, !.raised = TRUE]
        ELSE IF e < p THEN [NoRow EXCEPT !.done = TRUE]
        ELSE IF ~f.ok THEN [NoRow EXCEPT !.done = TRUE, !.raised = TRUE]
        ELSE [NoRow EXCEPT !.done = TRUE, !.kept = TRUE, !.number = f.number]

\* the characters of the nutrition texts
TextChars == {"1", "5", ".", " ", "g"}

\* the texts of test_parse_numeric
TestTexts ==
    { <<"1","2","g">>,
      <<"A","p","p","r","o","x","i","m","a","t","e","l","y"," ","5",".","5"," ","m","g">>,
      <<"n","o"," ","n","u","m","b","e","r"," ","h","e","r","e">>,
      <<"1","0","0",".","0","1"," ","u","n","i","t","s">> }

\* the values a nutrition dict can hold: a text, None or a number
TextInputs ==
    { StrVal(s) : s \in UNION { [1..n -> TextChars] : n \in 0..MaxText } \cup TestTexts }
        \cup {NoneVal, NumVal(0), NumVal(12)}

(***************************************************************************)
(* render_analysis: the three aggregates over a loaded history.  An entry  *)
(* is seen through the keys the aggregates read: recipe (hasRecipe), its   *)
(* name, its nutrition ([t, pairs]: t = "absent", "none" or "dict"), its   *)
(* ingredients ([has, elems]) and the entry's timestamp (a field value).   *)
(***************************************************************************)
AnEntry(hasRecipe, name, nutrition, ings, timestamp) ==
    [hasRecipe |-> hasRecipe, name |-> name, nutrition |-> nutrition,
     ingredients |-> ings, timestamp |-> timestamp]

NoNutrition == [t |-> "absent", pairs |-> <<>>]
Ingredients(elems) == [has |-> TRUE, elems |-> elems]

\* the lists of a list of lists, one after the other
RECURSIVE Concat(_)
Concat(ss) == IF ss = <<>> THEN <<>> ELSE ss[1] \o Concat(Tail(ss))

\* entry.get("recipe", {}).get("nutrition", {}) or {}, as (name, key, val)
NutritionItems(entry) ==
    IF ~entry.hasRecipe \/ entry.nutrition.t # "dict" THEN <<>>
    ELSE [i \in DOMAIN entry.nutrition.pairs |->
            [name |-> IF entry.name.t = "absent"
                      THEN StrVal(<<"U","n","k","n","o","w","n">>) ELSE entry.name,
             metric |-> entry.nutrition.pairs[i].key,
             row |-> NutritionRow(entry.nutrition.pairs[i].val)]]

\* the nutrition loop: nutri_rows, or the exception of the first bad value
NutritionRows(hist) ==
    LET items == Concat([i \in DOMAIN hist |-> NutritionItems(hist[i])])
        kept == SelectSeq(items, LAMBDA x : x.row.kept)
    IN  IF \E i \in DOMAIN items : items[i].row.raised
        THEN [NoRows EXCEPT !.done = TRUE, !.raised = TRUE]
        ELSE [NoRows EXCEPT !.done = TRUE,
                !.rows = [i \in DOMAIN kept |->
                            [name |-> kept[i].name, metric |-> kept[i].metric,
                             value |-> kept[i].row.number]]]

DaysIn(y, m) ==
    LET IsLeap == y % 4 = 0 /\ (y % 100 # 0 \/ y % 400 = 0)
    IN  IF m = 2 THEN (IF IsLeap THEN 29 ELSE 28)
        ELSE IF m \in {4, 6, 9, 11} THEN 30 ELSE 31

\* datetime.fromisoformat(s) for the forms every Python 3.7+ reads:
\* YYYY-MM-DD, then optionally one separator and HH[:MM[:SS[.fff[fff]]]]
IsoDate(s) ==
    LET n == Len(s)
        AllDigits(a, b) == b <= n /\ \A i \in a..b : IsDigit(s[i])
        Num(a, b) == NatOf(SubSeq(s, a, b))
        IsoTime ==
            /\ n \in {13, 16, 19, 23, 26}
            /\ AllDigits(12, 13) /\ Num(12, 13) < 24
            /\ n >= 16 => s[14] = ":" /\ AllDigits(15, 16) /\ Num(15, 16) < 60
            /\ n >= 19 => s[17] = ":" /\ AllDigits(18, 19) /\ Num(18, 19) < 60
            /\ n >= 23 => s[20] = "." /\ AllDigits(21, n)
    IN
    /\ n >= 10
    /\ AllDigits(1, 4) /\ s[5] = "-" /\ AllDigits(6, 7) /\ s[8] = "-" /\ AllDigits(9, 10)
    /\ Num(1, 4) >= 1
    /\ Num(6, 7) \in 1..12
    /\ Num(9, 10) \in 1..DaysIn(Num(1, 4), Num(6, 7))
    /\ n = 10 \/ IsoTime

\* the body of the try block: datetime.fromisoformat(ts.replace("Z", "")).date();
\* ts.replace raises unless ts is a str, fromisoformat unless the text is a date
DateOf(ts) ==
    LET s == SelectSeq(ts.s, LAMBDA c : c # "Z")
    IN  IF ts.t = "str" /\ IsoDate(s)
        THEN [ok |-> TRUE, date |-> SubSeq(s, 1, 10)]
        ELSE [ok |-> FALSE, date |-> <<>>]

\* the recipes-over-time loop and value_counts: `except Exception: pass`
\* keeps every failure of the try block inside the loop
RecipesOverTime(hist) ==
    LET ts(e) == IF e.timestamp.t = "absent" THEN StrVal(<<>>) ELSE e.timestamp
        ok == {i \in DOMAIN hist : DateOf(ts(hist[i])).ok}
        dates == {DateOf(ts(hist[i])).date : i \in ok}
    IN  [NoCounts EXCEPT !.done = TRUE,
            !.counts = { [date |-> d,
                          count |-> Cardinality({i \in ok : DateOf(ts(hist[i])).date = d})]
                         : d \in dates }]

RECURSIVE JoinText(_)
JoinText(pieces) ==
    IF pieces = <<>> THEN <<>>
    ELSE IF Len(pieces) = 1 THEN pieces[1]
    ELSE pieces[1] \o <<",", " ">> \o JoinText(Tail(pieces))

\* str(ing) of a dict element: 'key': repr(value) of each key it has
ReprText(d) ==
    LET ReprVal(v) ==
            CASE v.t = "str" -> <<"'">> \o v.s \o <<"'">>
              [] v.t = "num" -> IntText(v.n)
              [] OTHER -> <<"N","o","n","e">>
        ReprKey(key, v) ==
            IF v.t = "absent" THEN <<>>
            ELSE <<"'">> \o key \o <<"'", ":", " ">> \o ReprVal(v)
    IN
    <<"{">> \o JoinText(SelectSeq(<<ReprKey(<<"i","t","e","m">>, d.item),
                                   ReprKey(<<"a","m","o","u","n","t">>, d.amount),
                                   ReprKey(<<"n","a","m","e">>, d.name),
                                   ReprKey(<<"t","e","x","t">>, d.text)>>,
                                 LAMBDA x : x # <<>>)) \o <<"}">>

\* what all_ings.append receives for one ingredient:
\* ing.get("item", ing.get("name", str(ing))) of a dict, str(ing) otherwise
IngLabel(ing) ==
    CASE ing.k = "str" -> StrVal(ing.s)
      [] ing.k = "dict" ->
            IF ing.item.t # "absent" THEN ing.item
            ELSE IF ing.name.t # "absent" THEN ing.name
            ELSE StrVal(ReprText(ing))
      [] OTHER -> StrVal(IntText(ing.n))

\* str.strip() of the blanks of the model's texts
Strip(s) ==
    LET a == RunEnd(s, 1, {" "}) + 1
        b == CHOOSE e \in 0..Len(s) :
                /\ e = 0 \/ s[e] # " "
                /\ \A i \in (e + 1)..Len(s) : s[i] = " "
    IN  IF a > b THEN <<>> ELSE SubSeq(s, a, b)

\* all_ings
AllIngs(hist) ==
    Concat([i \in DOMAIN hist |->
              IF ~hist[i].hasRecipe \/ ~hist[i].ingredients.has THEN <<>>
              ELSE [j \in DOMAIN hist[i].ingredients.elems |->
                      IngLabel(hist[i].ingredients.elems[j])]])

TopN == 10

\* the orders Series.value_counts() can give the buckets: by count, largest
\* first.  The call names no sort kind, and the default kind is not a stable
\* sort: the order of buckets of equal count is the library build's, so it
\* is any order here
RECURSIVE CountOrders(_, _)
CountOrders(keys, cnt) ==
    IF keys = {} THEN { <<>> }
    ELSE LET top == {k \in keys : \A x \in keys : cnt[x] <= cnt[k]}
         IN  UNION { { <<[ingredient |-> k, frequency |-> cnt[k]]>> \o o :
                         o \in CountOrders(keys \ {k}, cnt) } : k \in top }

\* DataFrame.head(n)
HeadRows(rows, n) == SubSeq(rows, 1, IF Len(rows) < n THEN Len(rows) ELSE n)

\* the top-ingredients aggregate: the outcomes it can have.  i.strip()
\* raises AttributeError on a label that is not a str
TopIngredients(hist) ==
    LET all_ings == AllIngs(hist)
        keys == [i \in DOMAIN all_ings |-> Lower(Strip(all_ings[i].s))]
        cnt == [k \in Range(keys) |-> Cardinality({i \in DOMAIN keys : keys[i] = k})]
    IN  IF all_ings = <<>> THEN { [NoRows EXCEPT !.done = TRUE] }
        ELSE IF \E i \in DOMAIN all_ings : all_ings[i].t # "str"
        THEN { [NoRows EXCEPT !.done = TRUE, !.raised = TRUE] }
        ELSE { [NoRows EXCEPT !.done = TRUE, !.rows = HeadRows(o, TopN)] :
                 o \in CountOrders(Range(keys), cnt) }

Day1Morning == <<"2","0","2","4","-","0","1","-","0","2","T","1","0",":","0","0",":","0","0">>

\* entries a loaded history can hold: what save_recipe writes, and entries
\* lacking recipe, nutrition, timestamp or ingredients, or holding values
\* that are not text
AnEntries ==
    LET NullNutrition == [t |-> "none", pairs |-> <<>>]
        Nutrition(pairs) == [t |-> "dict", pairs |-> pairs]
        NoIngredients == [has |-> FALSE, elems |-> <<>>]
        Calories == <<"c","a","l","o","r","i","e","s">>
        Protein == <<"p","r","o","t","e","i","n">>
        Day1Later ==
            <<"2","0","2","4","-","0","1","-","0","2","T","1","1",":","3","0",":","0","0",
              ".","1","2","3","4","5","6">>
        Day2Zulu ==
            <<"2","0","2","4","-","0","2","-","2","9","T","0","9",":","0","0",":","0","0","Z">>
        Yesterday == <<"y","e","s","t","e","r","d","a","y">>
        NoSuchDay == <<"2","0","2","3","-","0","2","-","2","9">>
    IN
    { AnEntry(TRUE, StrVal(<<"D","i","s","h">>),
              Nutrition(<<[key |-> Calories, val |-> StrVal(<<"1","2","g">>)]>>),
              Ingredients(<<StrElem(<<"T","o","m","a","t","o">>), StrElem(Onion)>>),
              StrVal(Day1Morning)),
      AnEntry(TRUE, Absent,
              Nutrition(<<[key |-> Protein, val |-> StrVal(<<" ","5",".","5"," ","m","g">>)],
                          [key |-> Calories, val |-> StrVal(<<"l","o","w">>)]>>),
              Ingredients(<<StrElem(<<"t","o","m","a","t","o"," ">>)>>),
              StrVal(Day1Later)),
      AnEntry(TRUE, StrVal(<<"X">>), NullNutrition,
              Ingredients(<<StrElem(<<"T","O","M","A","T","O">>),
                            DictElem(Absent, StrVal(Garlic), StrVal(TwoCloves), Absent)>>),
              StrVal(Yesterday)),
      AnEntry(FALSE, Absent, NoNutrition, NoIngredients, Absent),
      AnEntry(TRUE, StrVal(<<"X">>), NoNutrition, NoIngredients, NumVal(17)),
      AnEntry(TRUE, StrVal(<<"X">>),
              Nutrition(<<[key |-> Calories, val |-> NumVal(12)]>>),
              NoIngredients, StrVal(NoSuchDay)),
      AnEntry(TRUE, StrVal(<<"X">>),
              Nutrition(<<[key |-> Calories, val |-> StrVal(<<"1",".","2",".","3">>)]>>),
              Ingredients(<<>>), NoneVal),
      AnEntry(TRUE, StrVal(<<"X">>),
              Nutrition(<<[key |-> Calories, val |-> NoneVal]>>),
              Ingredients(<<DictElem(NumVal(5), StrVal(Garlic), Absent, Absent)>>),
              StrVal(Day2Zulu)),
      AnEntry(TRUE, StrVal(<<"X">>), Nutrition(<<>>),
              Ingredients(<<DictElem(StrVal(Onion), StrVal(Garlic), Absent, StrVal(<<"1">>)),
                            DictElem(Absent, Absent, Absent, StrVal(<<"1">>))>>),
              StrVal(Day2Zulu)),
      AnEntry(TRUE, StrVal(<<"X">>), NoNutrition,
              Ingredients(<<NumElem(42), StrElem(Pepper)>>), StrVal(<<>>)) }

\* one entry whose recipe names more than TopN ingredients, the k-th of
\* them k times
ManyIngredients ==
    LET ManyNames == <<"a","b","c","d","e","f","g","h","i","j","k">>
    IN  AnEntry(TRUE, StrVal(<<"X">>), NoNutrition,
                Ingredients(Concat([k \in DOMAIN ManyNames |->
                                      [j \in 1..k |-> StrElem(<<ManyNames[k]>>)]])),
                StrVal(Day1Morning))

\* three entries whose one ingredient is Tomato, "tomato " and TOMATO
ThreeTomatoEntries ==
    LET TomatoEntry(label) ==
            AnEntry(TRUE, StrVal(<<"X">>), NoNutrition, Ingredients(<<StrElem(label)>>),
                    StrVal(Day1Morning))
    IN
    << TomatoEntry(<<"T","o","m","a","t","o">>),
       TomatoEntry(<<"t","o","m","a","t","o"," ">>),
       TomatoEntry(<<"T","O","M","A","T","O">>) >>

\* the histories render_analysis is given: at most MaxEntries entries
HistoryInputs ==
    UNION { [1..n -> AnEntries] : n \in 0..MaxEntries }
        \cup { <<ManyIngredients>>, ThreeTomatoEntries }

FnInputs ==
    { [NoInput EXCEPT !.kind = "norm", !.raw = r] : r \in RawInputs }
        \cup { [NoInput EXCEPT !.kind = "text", !.text = v] : v \in TextInputs }
        \cup { [NoInput EXCEPT !.kind = "hist", !.hist = h] : h \in HistoryInputs }

\* _parse_numeric(v)
ParseNumericCall ==
    /\ fnIn.kind = "text" /\ ~fnOut.parsed.done
    /\ fnOut' = [fnOut EXCEPT !.op = "parse", !.parsed = ParseNumeric(fnIn.text)]
    /\ UNCHANGED fnIn

\* the nutrition loop body of render_analysis on one value
NutritionRowCall ==
    /\ fnIn.kind = "text" /\ ~fnOut.row.done
    /\ fnOut' = [fnOut EXCEPT !.op = "row", !.row = NutritionRow(fnIn.text)]
    /\ UNCHANGED fnIn

Normalize ==
    /\ fnIn.kind = "norm" /\ fnOut.op = "none"
    /\ fnOut' = [normalize_values(fnIn.raw) EXCEPT !.op = "normalize"]
    /\ UNCHANGED fnIn

\* render_analysis, the nutrition comparison
NutritionAggregate ==
    /\ fnIn.kind = "hist" /\ ~fnOut.nutri.done
    /\ fnOut' = [fnOut EXCEPT !.op = "nutri", !.nutri = NutritionRows(fnIn.hist)]
    /\ UNCHANGED fnIn

\* render_analysis, recipes over time
DatesAggregate ==
    /\ fnIn.kind = "hist" /\ ~fnOut.dates.done
    /\ fnOut' = [fnOut EXCEPT !.op = "dates", !.dates = RecipesOverTime(fnIn.hist)]
    /\ UNCHANGED fnIn

\* render_analysis, the top ingredients
TopAggregate ==
    /\ fnIn.kind = "hist" /\ ~fnOut.top.done
    /\ \E r \in TopIngredients(fnIn.hist) :
            fnOut' = [fnOut EXCEPT !.op = "top", !.top = r]
    /\ UNCHANGED fnIn

(***************************************************************************)
(* Two writers over one backing store (two processes on the file, two      *)
(* browser tabs on the localStorage item).  save_recipe and delete_recipe  *)
(* read the store in their first statement and write it in their last;     *)
(* nothing excludes the other writer between the two.                      *)
(***************************************************************************)
Writers == {1, 2}

\* no writer is running: the other parts of the program are checked alone
RaceIdle ==
    LET IdleWriter == [pc |-> "idle", op |-> "none", target |-> 0, history |-> <<>>,
                       ops |-> 0, failed |-> 0]
    IN  race = [backend |-> "none", store |-> AbsentContent, nextId |-> 1,
                w |-> [i \in Writers |-> IdleWriter], overlapped |-> FALSE,
                start |-> {}, saved |-> {}, deleted |-> {}]

\* self.load_history() of the backend in use
BackendLoad(b, c) == IF b = "file" THEN FileLoad(c) ELSE LocalLoad(c)

\* history = self.load_history(), the first statement of save_recipe and of
\* delete_recipe (the id a delete is given is one the store shows).  When the
\* load raises, or returns None so that the next statement raises, the
\* operation ends without writing
WriterLoad(i) ==
    /\ race.w[i].pc = "idle"
    /\ race.w[i].ops < MaxWriterOps
    /\ LET r == BackendLoad(race.backend, race.store)
           shown == IF r.raised \/ ~r.isList THEN {} ELSE {r.ret[k].id : k \in DOMAIN r.ret}
       IN  \E op \in {"save", "delete"} :
           \E target \in IF op = "save" THEN {0} ELSE shown :
               race' = [race EXCEPT
                   !.w[i] = IF r.raised \/ ~r.isList
                            THEN [@ EXCEPT !.op = op, !.ops = @ + 1, !.failed = @ + 1]
                            ELSE [@ EXCEPT !.pc = "loaded", !.op = op, !.target = target,
                                           !.history = r.ret],
                   !.overlapped = @ \/ \E j \in Writers \ {i} : race.w[j].pc = "loaded"]

WrittenAlone(w, id) ==
    IF w.op = "save" THEN Dumps(<<Entry(id, DishX, <<>>, <<>>, NoSubs)>>)
    ELSE Dumps(<<>>)

\* what the last statement writes: json.dumps of the list loaded earlier with
\* the new entry appended (save_recipe) or without the entry of the given id
\* (delete_recipe)
WrittenBy(w, id) ==
    IF w.op = "save" THEN Dumps(Append(w.history, Entry(id, DishX, <<>>, <<>>, NoSubs)))
    ELSE Dumps(WithoutId(w.history, w.target))

\* the rest of save_recipe / delete_recipe: write_text / setItem
WriterWrite(i) ==
    /\ race.w[i].pc = "loaded"
    /\ race' = [race EXCEPT
           !.store = WrittenBy(race.w[i], race.nextId),
           !.nextId = IF race.w[i].op = "save" THEN @ + 1 ELSE @,
           !.saved = IF race.w[i].op = "save" THEN @ \cup {race.nextId} ELSE @,
           !.deleted = IF race.w[i].op = "delete" THEN @ \cup {race.w[i].target} ELSE @,
           !.w[i] = [@ EXCEPT !.pc = "idle", !.history = <<>>, !.ops = @ + 1]]

(***************************************************************************)
(* The user's interactions: each is one rerun of the script.               *)
(***************************************************************************)
NoRun ==
    [act |-> "none", outcome |-> "ok", calls |-> <<>>, index |-> -1, finalized |-> FALSE,
     staged |-> FALSE, draft |-> <<>>, branchCalls |-> <<>>, branchKept |-> TRUE,
     rejected |-> "none"]

\* an entry an earlier session left in the browser's store
StoredEntry ==
    Entry(0, [PlainRaw EXCEPT !.ingredients = normalize_ingredients(PlainRaw.ingredients)],
          <<>>, <<>>, <<>>)

\* the first page load of a session, in a browser with no stored history or
\* with the history of an earlier session
Init ==
    /\ store \in {AbsentContent, Dumps(<<StoredEntry>>)}
    /\ temp = <<>>
    /\ current = <<>>
    /\ history = load_history(store).ret
    /\ ingredients = <<>>
    /\ view = "welcome"
    /\ aiKey \in BOOLEAN
    /\ imgKey \in BOOLEAN
    /\ nextId = 1
    /\ last = NoRun
    /\ StoreIdle
    /\ FnIdle
    /\ RaceIdle

\* the user edits the sidebar (or clicks a button the new run does not render):
\* a rerun with no button set
Rerun ==
    /\ \E ings \in IngredientInputs : ingredients' = ings
    /\ Finish("rerun", RunStart, FALSE, 0)
    /\ UNCHANGED <<aiKey, imgKey>>

\* View Analytics: render_analysis reads the store, then st.stop()
ViewAnalytics ==
    /\ view' = "analytics"
    /\ last' = [NoRun EXCEPT !.act = "analytics"]
    /\ UNCHANGED <<store, temp, current, history, ingredients, aiKey, imgKey, nextId>>

\* Clear All History
ClearHistory ==
    /\ Finish("clear", ClearStep(RunStart), FALSE, 0)
    /\ UNCHANGED <<ingredients, aiKey, imgKey>>

\* Surprise Me!
Surprise ==
    /\ \E restrictions \in Drawn(aiKey, RestrictionInputs), ai \in Drawn(aiKey, AiOutcomes) :
        \E img \in Drawn(aiKey /\ imgKey /\ ai.ok /\ ai.recipe.hasIngs, ImgOutcomes) :
            Finish("surprise", RandomStep(RunStart, restrictions, ai, img), FALSE, 0)
    /\ UNCHANGED <<ingredients, aiKey, imgKey>>

\* Generate Recipe (the browser disables the button while the list is empty;
\* the script checks again)
Generate ==
    /\ \E restrictions \in Drawn(aiKey /\ ingredients # <<>>, RestrictionInputs),
          ai \in Drawn(aiKey /\ ingredients # <<>>, AiOutcomes) :
        \E img \in Drawn(aiKey /\ ingredients # <<>> /\ imgKey /\ ai.ok /\ ai.recipe.hasIngs,
                          ImgOutcomes) :
            Finish("generate", GenerateStep(RunStart, ingredients, restrictions, ai, img),
                   FALSE, 0)
    /\ UNCHANGED <<ingredients, aiKey, imgKey>>

\* Confirm Image, on a page that shows the picker
ConfirmImage ==
    /\ view = "picker"
    /\ \E choice \in {0, Len(temp[1].image_options) - 1} :
        Finish("confirm", RunStart, TRUE, choice)
    /\ UNCHANGED <<ingredients, aiKey, imgKey>>

DeleteStepNoReload(s, rid) ==
    [s EXCEPT !.store = delete_recipe(s.store, rid).store, !.view = "history"]

\* the branch of a history entry whose Delete Recipe button was clicked
DeleteStep(s, rid) ==
    [s EXCEPT !.store = delete_recipe(s.store, rid).store,
              !.history = load_history(delete_recipe(s.store, rid).store).ret,
              !.view = "history"]

\* Delete Recipe, on a page that shows the history
DeleteRecipe ==
    /\ view = "history"
    /\ \E i \in DOMAIN history :
        Commit("delete", DeleteStep(RunStart, history[i].id))
    /\ UNCHANGED <<ingredients, aiKey, imgKey>>

ReturnHomeKeepsCurrent(s) == [s EXCEPT !.temp = <<>>]

\* the on_click callback of Return Home
ReturnHomeCallback(s) == [s EXCEPT !.current = <<>>, !.temp = <<>>]

\* Return Home, on a page that shows the current recipe: the callback, then
\* the rerun
ReturnHome ==
    /\ view = "current"
    /\ Finish("home", ReturnHomeCallback(RunStart), FALSE, 0)
    /\ UNCHANGED <<ingredients, aiKey, imgKey>>

Next ==
    \/ Rerun /\ UNCHANGED <<storeVars, fnVars, race>>
    \/ ViewAnalytics /\ UNCHANGED <<storeVars, fnVars, race>>
    \/ ClearHistory /\ UNCHANGED <<storeVars, fnVars, race>>
    \/ Surprise /\ UNCHANGED <<storeVars, fnVars, race>>
    \/ Generate /\ UNCHANGED <<storeVars, fnVars, race>>
    \/ ConfirmImage /\ UNCHANGED <<storeVars, fnVars, race>>
    \/ DeleteRecipe /\ UNCHANGED <<storeVars, fnVars, race>>
    \/ ReturnHome /\ UNCHANGED <<storeVars, fnVars, race>>

Spec == Init /\ [][Next]_vars

\* the session is not running while the backends are driven directly
AppIdle ==
    /\ store = AbsentContent
    /\ temp = <<>>
    /\ current = <<>>
    /\ history = <<>>
    /\ ingredients = <<>>
    /\ view = "welcome"
    /\ aiKey = FALSE
    /\ imgKey = FALSE
    /\ nextId = 1
    /\ last = NoRun

StoreInit == Constructed /\ AppIdle /\ FnIdle /\ RaceIdle

StoreSpec == StoreInit /\ [][StoreNext]_vars

FnInit ==
    /\ fnIn \in FnInputs
    /\ fnOut = NoResult
    /\ AppIdle
    /\ StoreIdle
    /\ RaceIdle

FnNext ==
    \/ Normalize /\ UNCHANGED <<appVars, storeVars, race>>
    \/ ParseNumericCall /\ UNCHANGED <<appVars, storeVars, race>>
    \/ NutritionRowCall /\ UNCHANGED <<appVars, storeVars, race>>
    \/ NutritionAggregate /\ UNCHANGED <<appVars, storeVars, race>>
    \/ DatesAggregate /\ UNCHANGED <<appVars, storeVars, race>>
    \/ TopAggregate /\ UNCHANGED <<appVars, storeVars, race>>

FnSpec == FnInit /\ [][FnNext]_vars

\* two writers start on a store an earlier run left (the file-backed Storage
\* creates its file when constructed)
RaceInit ==
    /\ \E b \in {"file", "local"}, c \in InitContents :
        LET c0 == IF b = "file" THEN FileConstruct(c) ELSE c
            r == BackendLoad(b, c0)
        IN  race = [backend |-> b, store |-> c0, nextId |-> 1,
                    w |-> [i \in Writers |->
                             [pc |-> "idle", op |-> "none", target |-> 0,
                              history |-> <<>>, ops |-> 0, failed |-> 0]],
                    overlapped |-> FALSE,
                    start |-> IF r.raised \/ ~r.isList THEN {}
                              ELSE {r.ret[k].id : k \in DOMAIN r.ret},
                    saved |-> {}, deleted |-> {}]
    /\ AppIdle
    /\ StoreIdle
    /\ FnIdle

RaceNext ==
    \/ \E i \in Writers : WriterLoad(i) /\ UNCHANGED <<appVars, storeVars, fnVars>>
    \/ \E i \in Writers : WriterWrite(i) /\ UNCHANGED <<appVars, storeVars, fnVars>>

RaceSpec == RaceInit /\ [][RaceNext]_vars

(***************************************************************************)
(* Properties of the workflow (Spec).                                      *)
(***************************************************************************)
\* what storage.load_history() returns now
Persisted == load_history(store).ret

SaveCallsOf(calls) == SelectSeq(calls, LAMBDA c : c.svc = "save")
SubsCallsOf(calls) == SelectSeq(calls, LAMBDA c : c.svc = "subs")
ServiceCallsOf(calls) == SelectSeq(calls, LAMBDA c : c.svc \in {"generate", "images", "subs"})

\* C1: when Confirm Image succeeds on a draft, save_recipe is called once, with
\* the draft's recipe, the chosen option's url, the user_ings the draft holds
\* since generate (whatever the sidebar holds now) and the substitutions just
\* computed; the persisted history is the earlier history plus one last entry,
\* that entry is the session's current entry, and the draft is gone.
C1_ConfirmSavesDraft ==
    [][ (last'.act = "confirm" /\ last'.outcome = "ok") =>
            LET d == temp[1]
                before == Persisted
                after == Persisted'
                saves == SaveCallsOf(last'.calls)
                asked == SubsCallsOf(last'.calls)
            IN  /\ temp # <<>>
                /\ Len(saves) = 1
                /\ saves[1].recipe = d.recipe
                /\ saves[1].image_url = d.image_options[last'.index + 1]
                /\ saves[1].user_ings = d.user_ings
                /\ saves[1].substitutions =
                       IF asked = <<>> THEN <<>> ELSE get_substitutions(asked[1].missing)
                /\ Len(after) = Len(before) + 1
                /\ SubSeq(after, 1, Len(before)) = before
                /\ after[Len(after)].recipe = saves[1].recipe
                /\ after[Len(after)].image_url = saves[1].image_url
                /\ after[Len(after)].user_ings = saves[1].user_ings
                /\ after[Len(after)].substitutions = saves[1].substitutions
                /\ current' = <<after[Len(after)]>>
                /\ temp' = <<>> ]_vars

\* a confirm succeeded after the sidebar was edited, behind an earlier entry
C1_Witness ==
    /\ last.act = "confirm" /\ last.outcome = "ok"
    /\ Len(Persisted) >= 2
    /\ current # <<>> /\ current[1].user_ings # ingredients
    /\ current[1].substitutions # <<>>

Rejections == {"no_ai", "no_ingredients"}

\* a draft with no image options is waiting: the display branch of any run
\* finalizes it
BareDraftWaiting == temp # <<>> /\ current = <<>> /\ temp[1].image_options = <<>>

\* C2: a generate or surprise without the AI service, and a generate with an
\* empty ingredient list, is rejected: its branch makes no call and leaves the
\* draft, the current entry, the cached and the persisted history as they
\* were (and so does the whole run, unless a draft with no image options was
\* waiting for the display branch).  A surprise with the AI service is never
\* rejected: it calls the AI with no ingredients and, unless a call fails,
\* stores a draft with no user_ings.
C2_GenerateRejectedState ==
    LET gen == last.act \in {"generate", "surprise"}
    IN  /\ (gen /\ ~aiKey) => last.rejected \in Rejections
        /\ (last.act = "generate" /\ ingredients = <<>>) => last.rejected \in Rejections
        /\ (gen /\ last.rejected \in Rejections) =>
              /\ last.branchCalls = <<>>
              /\ last.branchKept
              /\ ~last.staged
        /\ (last.act = "surprise" /\ aiKey) =>
              /\ last.rejected \notin Rejections
              /\ last.branchCalls # <<>>
              /\ last.branchCalls[1].svc = "generate" /\ last.branchCalls[1].ings = <<>>
              /\ last.staged \/ last.outcome = "error"
              /\ last.staged =>
                    \/ temp # <<>> /\ temp[1].user_ings = <<>>
                    \/ last.finalized /\ last.draft[1].user_ings = <<>>

Unmatched(recipe_ings, user_ings) ==
    {i \in DOMAIN recipe_ings :
        \A j \in DOMAIN user_ings : Lower(recipe_ings[i]) # Lower(user_ings[j])}

\* m is recipe_ings restricted to the positions in keep, in order
IsSelection(m, recipe_ings, keep) ==
    /\ Len(m) = Cardinality(keep)
    /\ \A k \in DOMAIN m :
        \E i \in keep : /\ Cardinality({j \in keep : j <= i}) = k
                        /\ m[k] = recipe_ings[i]

\* C3: when a draft is finalized, the substitution service is asked exactly
\* when the AI service is available and some recipe_ings item matches no
\* user_ings item (lowercased, exact), and then for exactly those items in
\* order; when it is not asked the saved substitutions are empty.  With
\* user_ings chicken, rice and recipe items chicken, lime it is asked for lime
\* only, and an empty history then holds exactly one entry.
C3_MissingState ==
    last.draft # <<>> =>
        LET d == last.draft[1]
            keep == Unmatched(d.recipe_ings, d.user_ings)
            asked == SubsCallsOf(last.calls)
        IN  /\ (aiKey /\ keep # {}) =>
                /\ Len(asked) = 1
                /\ IsSelection(asked[1].missing, d.recipe_ings, keep)
            /\ ~(aiKey /\ keep # {}) =>
                /\ asked = <<>>
                /\ last.finalized => current[1].substitutions = <<>>
            /\ (d.user_ings = <<Chicken, Rice>> /\ d.recipe_ings = <<Chicken, Lime>> /\ aiKey) =>
                asked = <<SubsCall(<<Lime>>)>>

C3_Missing ==
    /\ []C3_MissingState
    /\ [][ (last'.finalized /\ Persisted = <<>>) => Len(Persisted') = 1 ]_vars

\* the end-to-end case was confirmed on an empty history
C3_Witness ==
    /\ last.finalized /\ last.act = "confirm"
    /\ last.draft[1].user_ings = <<Chicken, Rice>>
    /\ last.draft[1].recipe_ings = <<Chicken, Lime>>
    /\ Len(Persisted) = 1
    /\ current[1].substitutions = <<[key |-> Lime, subs |-> TwoSubs]>>

C5_Reset ==
    /\ [](LET s == Display(ReturnHomeCallback(RunStart), FALSE, 0, "full")
          IN  s.temp = <<>> /\ s.current = <<>> /\ s.store = store)
    /\ [][ /\ last'.act = "home" =>
                /\ temp' = <<>> /\ current' = <<>>
                /\ store' = store /\ Persisted' = Persisted
           /\ last'.act = "clear" =>
                /\ temp' = <<>> /\ current' = <<>>
                /\ Persisted' = <<>> /\ history' = <<>> ]_vars

\* Return Home was clicked on a finalized recipe
C5_Witness ==
    /\ last.act = "home" /\ Len(Persisted) >= 2 /\ temp = <<>> /\ current = <<>>

\* C13 (as claimed): a surprise run calls the AI service with no ingredients
\* and no restrictions, whatever the sidebar's restrictions hold, and the
\* draft it stores has no user_ings.
C13_SurpriseNoRestrictions ==
    (last.act = "surprise" /\ last.branchCalls # <<>>) =>
        /\ last.branchCalls[1] = GenCall(<<>>, <<>>)
        /\ (last.staged /\ temp # <<>>) => temp[1].user_ings = <<>>

\* C13 (amended): a surprise run calls the AI service with no ingredients and
\* with the restrictions the sidebar holds, and the draft it stores has no
\* user_ings.
C13_SurprisePassesSelection ==
    /\ aiKey =>
        \A restrs \in RestrictionInputs, ai \in AiOutcomes, img \in ImgOutcomes :
            RandomStep(RunStart, restrs, ai, img).calls[1] = GenCall(<<>>, restrs)
    /\ (last.act = "surprise" /\ last.branchCalls # <<>>) =>
        /\ last.branchCalls[1].svc = "generate"
        /\ last.branchCalls[1].ings = <<>>
        /\ last.branchCalls[1].restrs \in RestrictionInputs
        /\ (last.staged /\ temp # <<>>) => temp[1].user_ings = <<>>
        /\ last.finalized => last.draft[1].user_ings = <<>>

\* a surprise with a restriction selected and ingredients typed staged a draft
C13_Witness ==
    /\ last.act = "surprise" /\ last.staged
    /\ last.branchCalls[1].restrs # <<>>
    /\ ingredients # <<>>
    /\ temp # <<>> /\ temp[1].user_ings = <<>>

\* the last call of the run
LastCall(calls) == calls[Len(calls)]

\* C14: when the AI call or the image fetch of a generate fails, or the
\* substitution call of a confirm fails, the run leaves the draft, the current
\* entry, the cached and the persisted history as they were: a generate whose
\* image fetch fails stores no draft, a confirm whose substitution call fails
\* saves nothing.
C14_FailureAborts ==
    [][ /\ (/\ last'.act \in {"generate", "surprise"}
            /\ last'.outcome = "error"
            /\ LastCall(last'.calls).svc \in {"generate", "images"}) =>
                /\ ~last'.staged
                /\ temp' = temp /\ current' = current
                /\ history' = history /\ store' = store
        /\ (last'.act = "confirm" /\ last'.outcome = "error") =>
                /\ LastCall(last'.calls).svc = "subs"
                /\ SaveCallsOf(last'.calls) = <<>>
                /\ temp' = temp /\ current' = current
                /\ history' = history /\ store' = store ]_vars

\* the image fetch of a generate failed while an earlier draft was waiting for
\* its image, beside a stored entry
C14_Witness ==
    /\ last.act = "generate" /\ last.outcome = "error"
    /\ LastCall(last.calls).svc = "images"
    /\ temp # <<>> /\ temp[1].user_ings = <<>>
    /\ Persisted # <<>>

\* C15: when the AI service returns a recipe object with no ingredients
\* field, generate does not fail: it stores a draft whose recipe_ings is empty.
C15_MissingIngredientsDefault ==
    aiKey =>
        \A img \in {i \in ImgOutcomes : i.ok} :
            LET s == GenerateStep(RunStart, <<Chicken, Rice>>, <<>>,
                                  [ok |-> TRUE, recipe |-> NoIngsRaw], img)
            IN  /\ ~s.err
                /\ s.temp # <<>>
                /\ s.temp[1].recipe_ings = <<>>

\* C19: once a service call has failed, no service is called again until the
\* user clicks generate, surprise or confirm: a run started by anything else
\* calls no service and finalizes no draft.
C19_NoAutomaticRetry ==
    [][ (last.outcome = "error" /\ last'.act \notin {"generate", "surprise", "confirm"}) =>
            /\ ServiceCallsOf(last'.calls) = <<>>
            /\ ~last'.finalized ]_vars

C23_CurrentIsPersisted ==
    current # <<>> =>
        /\ temp = <<>>
        /\ \E i \in DOMAIN Persisted :
            /\ Persisted[i].id = current[1].id
            /\ Persisted[i] = current[1]

\* a current entry is shown beside the history of an earlier session
C23_Witness ==
    /\ current # <<>>
    /\ view = "current"
    /\ Len(Persisted) >= 2

\* C24: after every completed user action the history list cached in the
\* session equals what load_history() returns at that moment.
C24_CachedHistoryIsLoad ==
    history = load_history(store).ret

\* an entry saved in this session was deleted from the history view
C24_Witness ==
    /\ last.act = "delete"
    /\ nextId > 1
    /\ \A i \in DOMAIN history : history[i].id = 0

(***************************************************************************)
(* Properties of the two backends (StoreSpec).                             *)
(***************************************************************************)
\* the list a load returned ([] when it raised or returned no list)
ListOf(r) == IF r.raised \/ ~r.isList THEN <<>> ELSE r.ret

\* C6: load() returns [] and does not raise when the backing store is absent,
\* empty or holds anything but a JSON array, for both backends.
C6_LoadDegradesToEmpty ==
    sLast.op = "load" =>
        /\ (sLast.start.kind = "absent" /\ sLast.preFile = FileConstruct(sLast.start))
              => sLast.f = Returned(<<>>)
        /\ sLast.preFile.kind # "array" => sLast.f = Returned(<<>>)
        /\ sLast.preLocal.kind # "array" => sLast.l = Returned(<<>>)

\* the entry save(r, url, u, s) must add
IsSavedEntry(e, id, a) ==
    /\ e.id = id
    /\ e.recipe.name = a.recipe.name
    /\ e.image_url = a.image_url
    /\ e.user_ings = a.user_ings
    /\ e.substitutions = a.substitutions
    /\ e.recipe_ings = (IF a.recipe.hasIngs THEN a.recipe.ingredients ELSE <<>>)
    /\ e.timestamp = id

\* after is before plus one last entry, the one saved, with a new id
IsAppended(after, before, id, a) ==
    /\ ~after.raised /\ after.isList
    /\ Len(after.ret) = Len(ListOf(before)) + 1
    /\ SubSeq(after.ret, 1, Len(ListOf(before))) = ListOf(before)
    /\ IsSavedEntry(after.ret[Len(after.ret)], id, a)
    /\ \A i \in 1..Len(ListOf(before)) : after.ret[i].id # id

\* C7: whatever the store holds, save(r, url, u, s) then load() yields the
\* earlier entries in order plus one last entry carrying r's name, url, u, s,
\* r's ingredient list ([] when r has none), a timestamp and a new id.
C7_SaveThenLoad ==
    sLast.op = "save" =>
        /\ ~sLast.f.raised
        /\ IsAppended(FileLoad(fileStore), FileLoad(sLast.preFile), sLast.id, sLast.args)
        /\ ~sLast.l.raised
        /\ IsAppended(LocalLoad(localStore), LocalLoad(sLast.preLocal), sLast.id, sLast.args)

\* the same, for a store whose load() returns a list (it does not hold for the
\* file-backed store otherwise: see C6)
SaveThenLoadOnLists ==
    sLast.op = "save" =>
        /\ (~FileLoad(sLast.preFile).raised /\ FileLoad(sLast.preFile).isList) =>
              /\ ~sLast.f.raised
              /\ IsAppended(FileLoad(fileStore), FileLoad(sLast.preFile), sLast.id, sLast.args)
        /\ LocalLoad(sLast.preLocal).isList =>
              /\ ~sLast.l.raised
              /\ IsAppended(LocalLoad(localStore), LocalLoad(sLast.preLocal),
                            sLast.id, sLast.args)

\* after is before without its one entry of that id, or before itself when
\* it has none
IsWithout(after, before, id) ==
    LET hits == {i \in DOMAIN before : before[i].id = id}
    IN  IF hits = {} THEN after = before
        ELSE \E i \in hits :
                /\ hits = {i}
                /\ after = SubSeq(before, 1, i - 1) \o SubSeq(before, i + 1, Len(before))

\* C8: on a store whose load() returns the list of its entries, delete(id)
\* raises nothing and a following load() returns that list without the entry
\* of that id, the others unchanged and in order: the same list when no entry
\* has that id.
C8_DeleteExact ==
    sLast.op = "delete" =>
        /\ (~FileLoad(sLast.preFile).raised /\ FileLoad(sLast.preFile).isList) =>
              /\ ~sLast.f.raised
              /\ ~FileLoad(fileStore).raised /\ FileLoad(fileStore).isList
              /\ IsWithout(FileLoad(fileStore).ret, FileLoad(sLast.preFile).ret, sLast.id)
        /\ LocalLoad(sLast.preLocal).isList =>
              /\ ~sLast.l.raised
              /\ LocalLoad(localStore).isList
              /\ IsWithout(LocalLoad(localStore).ret, LocalLoad(sLast.preLocal).ret, sLast.id)

\* the second of two entries was deleted
C8_Witness ==
    /\ sLast.op = "delete"
    /\ Len(sLast.preFile.val) = 2 /\ sLast.preFile.val[2].id = sLast.id
    /\ Len(sLast.preLocal.val) = 2
    /\ Len(ListOf(FileLoad(fileStore))) = 1 /\ Len(ListOf(LocalLoad(localStore))) = 1

\* C9: after clear(), whatever the store held, load() returns [], for both
\* backends.
C9_ClearThenLoad ==
    sLast.op = "clear" =>
        /\ ~sLast.f.raised /\ FileLoad(fileStore) = Returned(<<>>)
        /\ ~sLast.l.raised /\ LocalLoad(localStore) = Returned(<<>>)

\* a store of two entries was cleared
C9_Witness ==
    /\ sLast.op = "clear"
    /\ Len(sLast.preFile.val) = 2 /\ Len(sLast.preLocal.val) = 2

\* C10: started from the same backing content and given the same calls, the
\* two backends return the same load() results and raise at the same calls.
C10_BackendsAgree ==
    sLast.op \notin {"none", "init"} => sLast.f = sLast.l

(***************************************************************************)
(* Properties of the functions (FnSpec).                                   *)
(***************************************************************************)
\* C11: for every input list, normalize_ingredients raises nothing and returns
\* a list of the same length, whose elements are all strings, in the input's
\* order (a string element is found unchanged at its position).
C11_NormalizeTotal ==
    (fnOut.op = "normalize" /\ fnIn.raw.isList) =>
        /\ ~fnOut.raised
        /\ Len(fnOut.vals) = Len(fnIn.raw.elems)
        /\ \A j \in DOMAIN fnOut.vals :
            /\ fnOut.vals[j].t = "str"
            /\ fnIn.raw.elems[j].k = "str" => fnOut.vals[j].s = fnIn.raw.elems[j].s
            /\ fnOut.vals[j] =
                 normalize_values([isList |-> TRUE, elems |-> <<fnIn.raw.elems[j]>>]).vals[1]

\* a list of a record with a number as item and of a string was normalized
C11_Witness ==
    /\ fnOut.op = "normalize" /\ Len(fnIn.raw.elems) = 2
    /\ fnIn.raw.elems[1].k = "dict" /\ fnIn.raw.elems[1].item.t = "num"
    /\ fnIn.raw.elems[2] = StrElem(Tomato)
    /\ fnOut.vals[2] = StrVal(Tomato)

\* the first of item, name, text that the record has (None when it has none)
FirstPresent(d) ==
    IF d.item.t # "absent" THEN d.item
    ELSE IF d.name.t # "absent" THEN d.name
    ELSE IF d.text.t # "absent" THEN d.text
    ELSE NoneVal

\* the first of item, name, text that is truthy, else what get("text") gives
FirstTruthy(d) ==
    IF Truthy(d.item) THEN d.item
    ELSE IF Truthy(d.name) THEN d.name
    ELSE IF d.text.t = "absent" THEN NoneVal ELSE d.text

\* what the claim's rule gives for an element, the record's field chosen by pick
Resolved(e, pick(_)) ==
    CASE e.k = "str" -> e.s
      [] e.k = "dict" -> IF pick(e).t = "str" THEN pick(e).s ELSE DictText(e)
      [] OTHER -> IntText(e.n)

\* C12 (as claimed): a string is kept; for a record the first field present
\* among item, name, text is taken, the record's serialization when none is
\* present or the value is not a string; another value is stringified.
C12_FirstPresentField ==
    fnOut.op = "normalize" =>
        \A j \in DOMAIN fnOut.vals :
            fnOut.vals[j].s = Resolved(fnIn.raw.elems[j], FirstPresent)

\* C12 (amended): a string is kept; for a record the first truthy value among
\* item, name, text is taken, or the text field's value (None without one)
\* when none is truthy, and the record's serialization when that value is not
\* a string; another value is stringified.
C12_FirstTruthyField ==
    fnOut.op = "normalize" =>
        \A j \in DOMAIN fnOut.vals :
            fnOut.vals[j].s = Resolved(fnIn.raw.elems[j], FirstTruthy)

\* a record with an empty item and a name was normalized to its name
C12_Witness ==
    /\ fnOut.op = "normalize" /\ Len(fnIn.raw.elems) = 2
    /\ fnIn.raw.elems[1] = DictElem(StrVal(<<>>), StrVal(Garlic), Absent, Absent)
    /\ fnIn.raw.elems[2] = DictElem(NumVal(5), StrVal(Garlic), Absent, Absent)
    /\ fnOut.vals[1].s = Garlic
    /\ fnOut.vals[2].s = DictText(fnIn.raw.elems[2])

\* the decimal whole.frac
Decimal(whole, frac) == Reduced(NatOf(whole \o frac), Len(frac))

\* C16: _parse_numeric returns the value of the first run of digits, with its
\* decimal part if a dot and a digit follow it: 12 for "12g", 5.5 for
\* "Approximately 5.5 mg"; it returns 0.0, raising nothing, for a text with no
\* digit, for the empty text and for None.
C16_ParseLeadingNumber ==
    fnOut.parsed.done =>
        LET v == fnIn.text
            r == fnOut.parsed
        IN  /\ (v.t = "none" \/ (v.t = "str" /\ \A i \in DOMAIN v.s : ~IsDigit(v.s[i]))) =>
                  ~r.raised /\ r.number = Zero
            /\ (v.t = "str" /\ \E i \in DOMAIN v.s : IsDigit(v.s[i])) =>
                  /\ ~r.raised
                  /\ \E p \in DOMAIN v.s, e \in DOMAIN v.s :
                      /\ \A j \in 1..(p - 1) : ~IsDigit(v.s[j])
                      /\ p <= e
                      /\ \A j \in p..e : IsDigit(v.s[j])
                      /\ e = Len(v.s) \/ ~IsDigit(v.s[e + 1])
                      /\ \/ /\ e + 2 <= Len(v.s) /\ v.s[e + 1] = "." /\ IsDigit(v.s[e + 2])
                            /\ \E f \in (e + 2)..Len(v.s) :
                                /\ \A j \in (e + 2)..f : IsDigit(v.s[j])
                                /\ f = Len(v.s) \/ ~IsDigit(v.s[f + 1])
                                /\ r.number = Decimal(SubSeq(v.s, p, e), SubSeq(v.s, e + 2, f))
                         \/ /\ ~(e + 2 <= Len(v.s) /\ v.s[e + 1] = "." /\ IsDigit(v.s[e + 2]))
                            /\ r.number = Decimal(SubSeq(v.s, p, e), <<>>)
            /\ v = StrVal(<<"1","2","g">>) => r.number = [num |-> 12, scale |-> 0]
            /\ (v.t = "str" /\ Len(v.s) = 20 /\ v.s[1] = "A") => r.number = [num |-> 55, scale |-> 1]

\* the same for texts only (None is where the code fails)
ParseLeadingNumberOnTexts ==
    (fnOut.parsed.done /\ fnIn.text.t = "str") => C16_ParseLeadingNumber

\* C20: for every nutrition string the nutrition aggregate keeps a row exactly
\* when _parse_numeric finds a run of digits in it, raising nothing, and the
\* value of the row is what _parse_numeric returns.
C20_OneParsingRule ==
    (fnIn.text.t = "str" /\ fnOut.parsed.done /\ fnOut.row.done) =>
        /\ ~fnOut.row.raised
        /\ fnOut.row.kept <=> fnOut.parsed.found
        /\ fnOut.row.kept => fnOut.row.number = fnOut.parsed.number

\* the bucket of a label: trimmed and lowercased
Bucket(label) == Lower(Strip(label.s))

TopIngredientsUpToTies ==
    (fnIn.kind = "hist" /\ fnOut.top.done
        /\ \A i \in DOMAIN AllIngs(fnIn.hist) : AllIngs(fnIn.hist)[i].t = "str") =>
        LET all == AllIngs(fnIn.hist)
            keys == [i \in DOMAIN all |-> Bucket(all[i])]
            rows == fnOut.top.rows
            Count(k) == Cardinality({i \in DOMAIN keys : keys[i] = k})
            returned == {rows[r].ingredient : r \in DOMAIN rows}
        IN  /\ ~fnOut.top.raised
            /\ Len(rows) <= 10
            /\ Len(rows) = 10 \/ returned = Range(keys)
            /\ \A r \in DOMAIN rows :
                    /\ rows[r].ingredient \in Range(keys)
                    /\ rows[r].frequency = Count(rows[r].ingredient)
            /\ \A r, q \in DOMAIN rows :
                    r < q => /\ rows[r].ingredient # rows[q].ingredient
                             /\ rows[r].frequency >= rows[q].frequency
            /\ \A k \in Range(keys) \ returned :
                    \A r \in DOMAIN rows : rows[r].frequency >= Count(k)

\* Tomato, "tomato " and TOMATO of three entries are one bucket of count 3
ThreeTomatoes ==
    (fnIn.kind = "hist" /\ fnOut.top.done /\ fnIn.hist = ThreeTomatoEntries) =>
        fnOut.top.rows = <<[ingredient |-> Tomato, frequency |-> 3]>>

\* C18: on every history (empty; entries lacking recipe, nutrition, timestamp
\* or ingredients; nutrition values or ingredient items that are not text;
\* number-like text such as 1.2.3) none of the three aggregates raises: each
\* gives its rows or its no-data outcome.
C18_AggregatesNeverRaise ==
    fnIn.kind = "hist" =>
        /\ ~fnOut.nutri.raised
        /\ ~fnOut.dates.raised
        /\ ~fnOut.top.raised

\* the recipes-over-time aggregate alone: it never raises, and counts exactly
\* the entries whose timestamp is a date
RecipesOverTimeDrops ==
    (fnIn.kind = "hist" /\ fnOut.dates.done) =>
        LET Dated(i) == fnIn.hist[i].timestamp.t = "str"
                            /\ IsoDate(SelectSeq(fnIn.hist[i].timestamp.s, LAMBDA c : c # "Z"))
            n == Cardinality({i \in DOMAIN fnIn.hist : Dated(i)})
            Sum[S \in SUBSET fnOut.dates.counts] ==
                IF S = {} THEN 0
                ELSE LET x == CHOOSE x \in S : TRUE IN x.count + Sum[S \ {x}]
        IN  /\ ~fnOut.dates.raised
            /\ Sum[fnOut.dates.counts] = n
            /\ n = 0 <=> fnOut.dates.counts = {}

(***************************************************************************)
(* Properties of two writers over one store (RaceSpec).                    *)
(***************************************************************************)
\* the ids load() returns now (none when it raises or returns no list)
LoadedIds ==
    LET r == BackendLoad(race.backend, race.store)
    IN  IF r.raised \/ ~r.isList THEN {} ELSE {r.ret[k].id : k \in DOMAIN r.ret}

\* C21: when each save or delete runs to completion before the next starts,
\* no entry is lost: load() returns the entries the store started with and the
\* entries saved, without the entries deleted.  When operations interleave
\* this is not kept (an interleaving of two saves leaves one of the two new
\* entries); load() then still returns nothing but started and saved entries.
C21_SerialWritersLoseNothing ==
    /\ ~race.overlapped => LoadedIds = (race.start \cup race.saved) \ race.deleted
    /\ LoadedIds \subseteq race.start \cup race.saved

\* two saves interleaved, both completed: load() returns one of the two new
\* entries only
C21_LostUpdate ==
    /\ \A i \in Writers : race.w[i].pc = "idle" /\ race.w[i].op = "save" /\ race.w[i].failed = 0
    /\ race.overlapped
    /\ Cardinality(race.saved) = 2
    /\ race.deleted = {}
    /\ Cardinality(LoadedIds \cap race.saved) = 1

\* two saves one after the other: load() returns both new entries
SerialSavesKeepBoth ==
    /\ \A i \in Writers : race.w[i].pc = "idle" /\ race.w[i].op = "save"
    /\ ~race.overlapped
    /\ Cardinality(race.saved) = 2
    /\ race.saved \subseteq LoadedIds

====
